---- MODULE Spec2Model ----
(***************************************************************************)
(* A model of youtube_downloader.py (YouTubeDownloaderApp): the Tk main    *)
(* thread with its root.after callback queue, the fetch and download       *)
(* background threads, the log queue, and the pure helpers                 *)
(* (sanitize_filename, the URL heuristic of on_url_change).                *)
(***************************************************************************)
EXTENDS Integers, Sequences, FiniteSets, TLC

\* ------------------------------------------------------------------ bounds
\* Members of the playlist a download of Spec starts from, and members the
\* provider reports for a playlist in FetchSpec (len(pl.video_urls)).
MaxMembers == 2
\* Download threads started in one behaviour of Spec (line 304).
MaxDl == 1
\* Members of the playlist a download of PlaylistSpec starts from.
PlaylistMembers == 3
\* Download threads started in one behaviour of ReentrySpec.
ReentryDl == 2
\* Callbacks a background thread can be ahead of the main loop: a thread
\* takes its next step only with fewer than MaxPending callbacks waiting.
MaxPending == 2
\* Fetch threads started in one behaviour of RaceSpec (line 197), and the
\* members the provider reports for a playlist there (len(pl.video_urls)).
RaceFetch == 2
RaceMembers == 1
\* Chunks the provider reports for one transfer (stream.filesize, in chunks).
MaxChunks == 2
\* Length of the free part of a title given to sanitize_filename.
MaxTail == 3

\* --------------------------------------------------------------- constants
\* Fetch threads of LogSpec, and the longest log it reaches.
LogFetch == 2
LogLen == 14

\* Members of the longest playlist of ListSpec.
ListMembers == 3

\* Fetch threads, playlist members and rejected URL changes of FailSpec.
FailFetch == 2
FailMembers == 1
MaxRejects == 2

\* Largest stream.filesize given to on_progress on its own, and how far
\* bytes_remaining can lie outside 0..filesize.
MaxTotal == 8
MaxOver == 2

\* s[:100] of sanitize_filename.
TruncLen == 100

Min(a, b) == IF a < b THEN a ELSE b

\* ------------------------------------------------------- sanitize_filename
\* Characters are one-character strings; a title is a sequence of them.
InvalidChars == {"\\", "/", ":", "*", "?", "\"", "<", ">", "|"}
Whitespace == {" ", "\t", "\n"}

\* re.sub(r'[\\/:*?"<>|]', '', title)
RemoveInvalid(s) == SelectSeq(s, LAMBDA c : c \notin InvalidChars)

\* The elements s[i] of s for which keep[i] holds, in order.
Filter(s, keep) ==
    LET tagged == [i \in 1..Len(s) |-> <<s[i], keep[i]>>]
        kept == SelectSeq(tagged, LAMBDA p : p[2])
    IN [i \in 1..Len(kept) |-> kept[i][1]]

\* re.sub(r'\s+', '_', s): every maximal run of whitespace becomes one "_".
CollapseWs(s) ==
    Filter([i \in 1..Len(s) |-> IF s[i] \in Whitespace THEN "_" ELSE s[i]],
           [i \in 1..Len(s) |-> ~(s[i] \in Whitespace /\ i > 1 /\ s[i - 1] \in Whitespace)])

\* re.sub(r'_+', '_', s): every maximal run of "_" becomes one "_".
CollapseUs(s) ==
    Filter(s, [i \in 1..Len(s) |-> ~(s[i] = "_" /\ i > 1 /\ s[i - 1] = "_")])

\* s.strip(chars): s without its leading and trailing characters of chars.
StripChars(s, chars) ==
    LET inner == {i \in 1..Len(s) : s[i] \notin chars}
    IN IF inner = {} THEN <<>>
       ELSE SubSeq(s, CHOOSE i \in inner : \A j \in inner : i <= j,
                      CHOOSE i \in inner : \A j \in inner : j <= i)

\* s.strip('_')
StripUs(s) == StripChars(s, {"_"})

\* s[:100]
Truncate(s) == SubSeq(s, 1, Min(Len(s), TruncLen))

sanitize_filename(title) ==
    Truncate(StripUs(CollapseUs(CollapseWs(RemoveInvalid(title)))))

\* ------------------------------------------------------------------- URLs
\* A URL is a sequence of tokens; the four substrings the heuristic of
\* on_url_change looks for are tokens (or, for the music host, two tokens).
WatchPat == <<"youtube.com/watch?v=">>
ListPat == <<"youtube.com/playlist?list=">>
ShortPat == <<"youtu.be/">>
MusicPat == <<"music.", "youtube.com/watch?v=">>

UrlEmpty == <<>>
UrlBad == <<"x">>
UrlWatch == <<" ", "youtube.com/watch?v=", "x">>
UrlList == <<"youtube.com/playlist?list=", "x">>
\* What the user can have in the URL field.
TypedUrls == {UrlEmpty, UrlBad, UrlWatch, UrlList}

\* str.strip()
Strip(u) == StripChars(u, Whitespace)

\* p in u
IsSubstring(p, u) ==
    \E i \in 0..(Len(u) - Len(p)) : SubSeq(u, i + 1, i + Len(p)) = p

\* The negation of the condition of line 189.
PassesHeuristic(url) ==
    \/ IsSubstring(WatchPat, url)
    \/ IsSubstring(ListPat, url)
    \/ IsSubstring(ShortPat, url)
    \/ IsSubstring(MusicPat, url)

\* ------------------------------------------------- the media source provider
\* Streams the provider can report: resolution and abr as the provider
\* prints them ("" standing for None), px the number order_by('resolution')
\* sorts by.
S720 == [itag |-> 22, resolution |-> "720p", abr |-> "192kbps", px |-> 720,
         mime_type |-> "video/mp4"]
S480 == [itag |-> 59, resolution |-> "480p", abr |-> "128kbps", px |-> 480,
         mime_type |-> "video/mp4"]
S360 == [itag |-> 18, resolution |-> "360p", abr |-> "96kbps", px |-> 360,
         mime_type |-> "video/mp4"]
SNoRes == [itag |-> 17, resolution |-> "", abr |-> "", px |-> 0,
           mime_type |-> "video/mp4"]
A128 == [itag |-> 140, resolution |-> "", abr |-> "128kbps", px |-> 0,
         mime_type |-> "audio/mp4"]
ANoAbr == [itag |-> 139, resolution |-> "", abr |-> "", px |-> 0,
           mime_type |-> "audio/mp4"]

\* yt.streams.filter(progressive=True, file_extension='mp4')
\*   .order_by('resolution').desc(), as the provider can answer it.
VideoCatalogs == {<<>>, <<SNoRes>>, <<S720, S360>>}
\* yt.streams.filter(only_audio=True, file_extension='mp4').order_by('abr').desc()
AudioCatalogs == {<<>>, <<ANoAbr>>, <<A128>>}
\* The progressive MP4 streams one playlist member can have.
MemberStreams == {{}, {S360}, {S720, S360}, {S720, S480}}

DownloadTypes == {"video", "audio", "playlist"}

\* f"{s.resolution} - {s.filesize_mb:.2f} MB": a label is the sequence of
\* its space-separated words.
VideoDesc(s) == <<s.resolution, "-", "1.00", "MB">>
\* f"{s.abr} - {s.filesize_mb:.2f} MB"
AudioDesc(s) == <<s.abr, "-", "1.00", "MB">>
\* f"{s.resolution} - {s.mime_type}"
ItagDesc(s) == <<s.resolution, "-", s.mime_type>>

\* [(s, desc) for s in streams if s.resolution] (line 221) and
\* [(s, desc) for s in streams if s.abr] (line 228); by is the fetch thread
\* that built the entry.
StreamOptions(streams, dtype, by) ==
    LET kept == SelectSeq(streams, LAMBDA s :
                    IF dtype = "video" THEN s.resolution # "" ELSE s.abr # "")
    IN [k \in 1..Len(kept) |->
          [kind |-> "stream", obj |-> kept[k], by |-> by,
           desc |-> IF dtype = "video" THEN VideoDesc(kept[k]) ELSE AudioDesc(kept[k])]]

\* [(s.itag, desc) for s in streams if s.resolution] (line 245): obj stands
\* for the itag.
ItagOptions(streams, by) ==
    LET kept == SelectSeq(streams, LAMBDA s : s.resolution # "")
    IN [k \in 1..Len(kept) |->
          [kind |-> "itag", obj |-> kept[k], by |-> by, desc |-> ItagDesc(kept[k])]]

\* ------------------------------------------------------------------ state
VARIABLES
    self,            \* the YouTubeDownloaderApp object: widgets, attributes, queues
    fetch,           \* the fetch_stream_options threads and their locals
    dl,              \* the download threads and their locals
    provider_calls,  \* history: the URLs given to YouTube(url) / Playlist(url) by a fetch
    env,             \* the behaviour's environment: the URLs the user types, the longest
                     \* playlist the provider serves, whether the log channel is observed
    san,             \* the sanitize_filename harness: title, results, position
    prog             \* the on_progress harness: arguments, percentage, position

vars == <<self, fetch, dl, provider_calls, env, san, prog>>

\* The thread slots of the behaviour: Init fixes how many threads it can start.
FetchIds == DOMAIN fetch
DlIds == DOMAIN dl

\* A callback handed to root.after(0, ...): f names it, n and s are what its
\* closure captured.
Callback(f, n, s) == [f |-> f, n |-> n, s |-> s]

\* self.log(message): the message goes to log_queue (the timestamp is left out).
log(a, message) ==
    IF env.log THEN [a EXCEPT !.log_queue = Append(@, message)] ELSE a

\* self.root.after(0, cb)
after(a, cb) == [a EXCEPT !.after_queue = Append(@, cb)]

\* The main loop has kept up with the callbacks scheduled so far.
MainLoopKeepsUp == Len(self.after_queue) < MaxPending

\* clear_fields
clear_fields(a) ==
    [a EXCEPT !.quality_var = <<>>,
              !.quality_state = "disabled",
              !.quality_values = <<>>,
              !.listbox = <<>>,
              !.selection = {},
              !.sel_order = <<>>,
              !.download_button = "disabled",
              !.progress_bar = 0,
              !.stream_options = <<>>,
              !.playlist_videos_info = <<>>]

\* The state __init__ leaves: the welcome line is in the log queue.
InitSelf ==
    [download_type |-> "video",
     url_entry |-> UrlEmpty,
     quality_var |-> <<>>,
     quality_state |-> "disabled",
     quality_values |-> <<>>,
     listbox |-> <<>>,
     selection |-> {},
     sel_order |-> <<>>,
     download_button |-> "disabled",
     progress_bar |-> 0,
     stream_options |-> <<>>,
     playlist_videos_info |-> <<>>,
     after_queue |-> <<>>,
     log_queue |-> <<>>,
     log_text |-> <<>>]

IdleFetch == [pc |-> "idle", url |-> UrlEmpty, dtype |-> "video", n |-> 0, i |-> 0]

\* No entry of self.stream_options (None).
NoOption == [kind |-> "none", obj |-> SNoRes, by |-> 0, desc |-> <<>>]

\* The per-item outcome a run has not produced yet.
NoOutcome ==
    [yt |-> [by |-> 0, m |-> 0], ordinal |-> 0, avail |-> {}, threw |-> FALSE,
     started |-> FALSE, status |-> "none", stream |-> SNoRes, filename |-> <<>>]

\* A download thread's locals; outcomes, last, transfers, clicked, shown and
\* bg_ui are history: the status of each item in the order the outcomes were
\* logged, the last outcome in full, the transfers started, the selection
\* order when the selection was read, the message boxes shown for the run,
\* and whether the thread itself called a messagebox.
IdleDl ==
    [pc |-> "idle", url |-> UrlEmpty, dtype |-> "video", quality_str |-> <<>>,
     path_queue |-> <<>>, save_path |-> "unset", indices |-> <<>>, selected |-> <<>>,
     option |-> NoOption, avail |-> {}, stream |-> S720, extension |-> "",
     filename |-> <<>>, fallback |-> FALSE, i |-> 0, remaining |-> 0,
     outcomes |-> <<>>, last |-> NoOutcome, transfers |-> 0, clicked |-> <<>>,
     shown |-> <<>>, bg_ui |-> FALSE]

\* The smallest thread slot not yet used.
NextIdle(threads) ==
    CHOOSE t \in DOMAIN threads :
        /\ threads[t].pc = "idle"
        /\ \A u \in DOMAIN threads : threads[u].pc = "idle" => t <= u

Running(threads) == {t \in DOMAIN threads : threads[t].pc \notin {"idle", "done"}}

\* ------------------------------------------------------- main thread: user
\* The user edits the URL field (no handler runs).
EditUrl ==
    /\ \E u \in env.urls :
          /\ u # self.url_entry
          /\ self' = [self EXCEPT !.url_entry = u]
    /\ UNCHANGED <<fetch, dl, provider_calls, env, san, prog>>

\* on_url_change, lines 183-192: the two rejections.
on_url_change_reject ==
    LET url == Strip(self.url_entry) IN
    /\ url = <<>> \/ ~PassesHeuristic(url)
    /\ self' = IF url = <<>>
               THEN log(clear_fields(self), "URL field is empty")
               ELSE clear_fields(log(self, "Invalid URL format"))
    /\ UNCHANGED <<fetch, dl, provider_calls, env, san, prog>>

\* on_url_change, lines 194-197: a fetch thread is started.
on_url_change_fetch ==
    LET url == Strip(self.url_entry) IN
    /\ url # <<>>
    /\ PassesHeuristic(url)
    /\ \E t \in FetchIds : fetch[t].pc = "idle"
    /\ self' = after(log(self, "URL detected"), Callback("clear_fields", 0, ""))
    /\ fetch' = [fetch EXCEPT ![NextIdle(fetch)].pc = "start"]
    /\ UNCHANGED <<dl, provider_calls, env, san, prog>>

on_url_change == on_url_change_reject \/ on_url_change_fetch

\* A radio button is clicked: the variable is set, then update_ui_for_type runs.
update_ui_for_type ==
    /\ \E t \in DownloadTypes :
          self' = log(clear_fields([self EXCEPT !.download_type = t]), "Switched type")
    /\ UNCHANGED <<fetch, dl, provider_calls, env, san, prog>>

\* A click on entry k of the MULTIPLE-mode listbox toggles it; sel_order is
\* history: the selected entries in the order the user selected them.
listbox_click ==
    /\ self.download_type = "playlist"
    /\ \E k \in 1..Len(self.listbox) :
          self' = IF k \in self.selection
                  THEN [self EXCEPT !.selection = @ \ {k},
                                    !.sel_order = SelectSeq(@, LAMBDA j : j # k)]
                  ELSE [self EXCEPT !.selection = @ \cup {k},
                                    !.sel_order = Append(@, k)]
    /\ UNCHANGED <<fetch, dl, provider_calls, env, san, prog>>

\* The indices of 1..n that are not in seq, ascending.
RECURSIVE Missing(_, _, _)
Missing(seq, k, n) ==
    IF k > n THEN <<>>
    ELSE IF \E j \in 1..Len(seq) : seq[j] = k
         THEN Missing(seq, k + 1, n)
         ELSE <<k>> \o Missing(seq, k + 1, n)

\* select_all_playlist_videos
select_all_playlist_videos ==
    /\ self.download_type = "playlist"
    /\ self' = [log(self, "Selecting all") EXCEPT
                  !.selection = 1..Len(self.listbox),
                  !.sel_order = @ \o Missing(@, 1, Len(self.listbox))]
    /\ UNCHANGED <<fetch, dl, provider_calls, env, san, prog>>

\* deselect_all_playlist_videos
deselect_all_playlist_videos ==
    /\ self.download_type = "playlist"
    /\ self' = [log(self, "Deselecting all") EXCEPT
                  !.selection = {}, !.sel_order = <<>>]
    /\ UNCHANGED <<fetch, dl, provider_calls, env, san, prog>>

\* The user picks another entry of the read-only quality combobox.
quality_select ==
    /\ self.quality_state = "readonly"
    /\ \E k \in 1..Len(self.quality_values) :
          /\ self.quality_values[k] # self.quality_var
          /\ self' = [self EXCEPT !.quality_var = self.quality_values[k]]
    /\ UNCHANGED <<fetch, dl, provider_calls, env, san, prog>>

\* start_download_thread: the Download button is clicked (a disabled button
\* takes no click).
start_download_thread ==
    /\ self.download_button = "normal"
    /\ \E d \in DlIds : dl[d].pc = "idle"
    /\ self' = log([self EXCEPT !.download_button = "disabled", !.progress_bar = 0],
                   "Download button clicked")
    /\ dl' = [dl EXCEPT ![NextIdle(dl)].pc = "start"]
    /\ UNCHANGED <<fetch, provider_calls, env, san, prog>>

\* A drain that takes the newest message of the queue first.
process_log_queue_lifo ==
    /\ self.log_queue # <<>>
    /\ self' = [self EXCEPT !.log_text = Append(@, self.log_queue[Len(self.log_queue)]),
                            !.log_queue = SubSeq(@, 1, Len(@) - 1)]
    /\ UNCHANGED <<fetch, dl, provider_calls, env, san, prog>>

\* process_log_queue, lines 133-138: one turn of the loop the 100 ms timer
\* runs, which moves the oldest message of the queue to the log widget; the
\* threads may put messages between two turns.  (With an empty queue the
\* loop ends and line 139 arms the timer again, which changes nothing.)
process_log_queue ==
    /\ self.log_queue # <<>>
    /\ self' = [self EXCEPT !.log_text = Append(@, Head(self.log_queue)),
                            !.log_queue = Tail(@)]
    /\ UNCHANGED <<fetch, dl, provider_calls, env, san, prog>>

\* ------------------------------------------- main thread: after callbacks
\* update_ui of fetch_stream_options (lines 270-280): it reads
\* self.stream_options when it runs.
update_ui(a) ==
    LET values == [k \in 1..Len(a.stream_options) |-> a.stream_options[k].desc] IN
    IF a.stream_options # <<>>
    THEN log([a EXCEPT !.quality_values = values,
                       !.quality_var = a.stream_options[1].desc,
                       !.quality_state = "readonly",
                       !.download_button = "normal"], "Ready to download")
    ELSE log([a EXCEPT !.quality_values = values,
                       !.quality_state = "disabled",
                       !.download_button = "disabled"], "No quality options available")

\* The listbox entry lines 253 and 257 insert.
ListboxEntry(cb) == [i |-> cb.n, title |-> cb.s]

\* What running callback cb does to the application object.
RunCallback(a, cb) ==
    CASE cb.f = "clear_fields" -> clear_fields(a)
      [] cb.f = "quality_menu_disable" -> [a EXCEPT !.quality_state = "disabled"]
      [] cb.f = "download_button_disable" -> [a EXCEPT !.download_button = "disabled"]
      [] cb.f = "download_button_normal" -> [a EXCEPT !.download_button = "normal"]
      [] cb.f = "listbox_delete" ->
            [a EXCEPT !.listbox = <<>>, !.selection = {}, !.sel_order = <<>>]
      [] cb.f = "listbox_insert" -> [a EXCEPT !.listbox = Append(@, ListboxEntry(cb))]
      [] cb.f = "update_ui" -> update_ui(a)
      [] cb.f = "progress_bar" -> [a EXCEPT !.progress_bar = cb.n]
      [] OTHER -> a

\* What the user can answer to filedialog.askdirectory(): "" is no selection.
Directories == {"", "/dir"}

\* One queue that every ask_for_directory call shares, held by the first
\* thread.
put_path_shared(threads, cb, path) ==
    [threads EXCEPT ![1].path_queue = Append(@, path)]

\* lambda: path_queue.put(filedialog.askdirectory()) of line 351: the queue
\* is the one the call that scheduled the callback made at line 350.
put_path(threads, cb, path) ==
    [threads EXCEPT ![cb.n].path_queue = Append(@, path)]

\* The main loop runs the oldest pending callback.  askdirectory puts the
\* answer in the path_queue of the ask_for_directory call that scheduled it;
\* a messagebox is shown and dismissed.
RunAfter ==
    /\ self.after_queue # <<>>
    /\ LET cb == Head(self.after_queue)
           a == [self EXCEPT !.after_queue = Tail(@)]
       IN /\ self' = RunCallback(a, cb)
          /\ CASE cb.f = "askdirectory" ->
                    \E path \in Directories : dl' = put_path(dl, cb, path)
               [] cb.f \in {"showinfo", "showerror"} ->
                    dl' = [dl EXCEPT ![cb.n].shown = Append(@, cb.s)]
               [] OTHER -> dl' = dl
    /\ UNCHANGED <<fetch, provider_calls, env, san, prog>>

\* ------------------------------------------------- fetch_stream_options
\* Lines 201-207: the thread reads the URL field and the type, and schedules
\* the three callbacks that disable the controls.
fetch_start(t) ==
    /\ fetch[t].pc = "start"
    /\ MainLoopKeepsUp
    /\ fetch' = [fetch EXCEPT ![t].pc = "connect",
                              ![t].url = Strip(self.url_entry),
                              ![t].dtype = self.download_type]
    /\ self' = after(after(after(self,
                   Callback("quality_menu_disable", 0, "")),
                   Callback("download_button_disable", 0, "")),
                   Callback("listbox_delete", 0, ""))
    /\ UNCHANGED <<dl, provider_calls, env, san, prog>>

\* A handler that resets the fields and logs nothing.
fetch_except_silent(a) == after(a, Callback("clear_fields", 0, ""))

\* Lines 284-287: the handler of any exception of the try block.
fetch_except(a) ==
    after(log(log(a, "FATAL ERROR: Could not fetch details"), "--> Exception"),
          Callback("clear_fields", 0, ""))

\* Lines 210-228: a video or audio URL is resolved; the provider raises or
\* answers with a stream list, which becomes self.stream_options.
fetch_connect_item(t) ==
    /\ fetch[t].pc = "connect"
    /\ MainLoopKeepsUp
    /\ fetch[t].dtype \in {"video", "audio"}
    /\ provider_calls' = provider_calls \cup {fetch[t].url}
    /\ \/ /\ self' = fetch_except(log(self, "Connecting to URL"))
          /\ fetch' = [fetch EXCEPT ![t].pc = "done"]
       \/ /\ \E streams \in (IF fetch[t].dtype = "video"
                             THEN VideoCatalogs ELSE AudioCatalogs) :
                self' = [log(log(log(self, "Connecting to URL"),
                                 "Successfully connected"), "Fetching available streams")
                         EXCEPT !.stream_options =
                                    StreamOptions(streams, fetch[t].dtype, t)]
          /\ fetch' = [fetch EXCEPT ![t].pc = "check"]
    /\ UNCHANGED <<dl, env, san, prog>>

\* Lines 231-238: a playlist URL is resolved; the provider raises or answers
\* with the member URLs; an empty playlist ends the fetch.
fetch_connect_playlist(t) ==
    /\ fetch[t].pc = "connect"
    /\ MainLoopKeepsUp
    /\ fetch[t].dtype = "playlist"
    /\ provider_calls' = provider_calls \cup {fetch[t].url}
    /\ \/ /\ self' = fetch_except(log(self, "Connecting to URL"))
          /\ fetch' = [fetch EXCEPT ![t].pc = "done"]
       \/ \E n \in 0..env.members :
             LET a == log(log(log(self, "Connecting to URL"),
                              "Successfully connected"), "Found videos in the playlist")
             IN IF n = 0
                THEN /\ self' = after(log(a, "Error: This playlist is empty or private"),
                                      Callback("clear_fields", 0, ""))
                     /\ fetch' = [fetch EXCEPT ![t].pc = "done"]
                ELSE /\ self' = a
                     /\ fetch' = [fetch EXCEPT ![t].pc = "first", ![t].n = n]
    /\ UNCHANGED <<dl, env, san, prog>>

\* Lines 241-248: the first member is resolved for the shared catalog, then
\* playlist_videos_info is reset.
fetch_first(t) ==
    /\ fetch[t].pc = "first"
    /\ MainLoopKeepsUp
    /\ \/ /\ self' = fetch_except(self)
          /\ fetch' = [fetch EXCEPT ![t].pc = "done"]
       \/ /\ \E streams \in VideoCatalogs :
                self' = [log(self, "Fetching sample quality options from first video")
                         EXCEPT !.stream_options = ItagOptions(streams, t),
                                !.playlist_videos_info = <<>>]
          /\ fetch' = [fetch EXCEPT ![t].pc = "member", ![t].i = 1]
    /\ UNCHANGED <<dl, provider_calls, env, san, prog>>

\* A loop over pl.video_urls that a member's exception ends.
LoopTo_break(n, i, resolved) == IF i = n \/ ~resolved THEN "check" ELSE "member"

\* Where the loop over pl.video_urls of n members goes after member i,
\* resolved or not (line 249, and continue at line 258).
LoopTo(n, i, resolved) == IF i = n THEN "check" ELSE "member"

\* The YouTube object of member m of the playlist fetch t resolved.
Member(t, m) == [by |-> t, m |-> m]

\* Lines 249-259: one turn of the loop over pl.video_urls; the member's
\* title resolves, or the exception is caught and a placeholder is inserted.
fetch_member(t) ==
    /\ fetch[t].pc = "member"
    /\ MainLoopKeepsUp
    /\ LET i == fetch[t].i
           n == fetch[t].n
           done(a, to) == IF to = "check" THEN log(a, "Successfully fetched titles") ELSE a
       IN \/ /\ self' = done(after(
                            [self EXCEPT !.playlist_videos_info =
                                             Append(@, [yt |-> Member(t, i), title |-> "title"])],
                            Callback("listbox_insert", i, "title")), LoopTo(n, i, TRUE))
             /\ fetch' = [fetch EXCEPT ![t].i = i + 1, ![t].pc = LoopTo(n, i, TRUE)]
          \/ /\ self' = done(after(log(self, "WARNING: Could not fetch details for video"),
                                   Callback("listbox_insert", i, "[Error fetching title]")),
                             LoopTo(n, i, FALSE))
             /\ fetch' = [fetch EXCEPT ![t].i = i + 1, ![t].pc = LoopTo(n, i, FALSE)]
    /\ UNCHANGED <<dl, provider_calls, env, san, prog>>

\* Lines 262-282: with no stream option the fetch ends in clear_fields,
\* otherwise update_ui is scheduled.
fetch_check(t) ==
    /\ fetch[t].pc = "check"
    /\ MainLoopKeepsUp
    /\ self' = IF self.stream_options = <<>>
               THEN after(log(self, "Error: No compatible streams were found"),
                          Callback("clear_fields", 0, ""))
               ELSE after(log(self, "Found quality options"), Callback("update_ui", 0, ""))
    /\ fetch' = [fetch EXCEPT ![t].pc = "done"]
    /\ UNCHANGED <<dl, provider_calls, env, san, prog>>

fetch_stream_options(t) ==
    \/ fetch_start(t)
    \/ fetch_connect_item(t)
    \/ fetch_connect_playlist(t)
    \/ fetch_first(t)
    \/ fetch_member(t)
    \/ fetch_check(t)

\* ---------------------------------------------------------------- download
\* The share of the bytes that remain, not of the bytes downloaded.
on_progress_remaining(total_size, bytes_remaining) ==
    IF total_size = 0 THEN 0 ELSE (bytes_remaining * 100) \div total_size

\* on_progress, lines 455-460: the percentage for (stream.filesize,
\* bytes_remaining), in whole percents.
on_progress(total_size, bytes_remaining) ==
    IF total_size = 0 THEN 0 ELSE ((total_size - bytes_remaining) * 100) \div total_size

\* The title every video has: "My: Vid".
VideoTitle == <<"M", "y", ":", " ", "V", "i", "d">>

\* f"{ordinal}-{sanitized_title}-{quality}.{extension}"
Filename(ordinal, title, quality, extension) ==
    [ordinal |-> ordinal, title |-> sanitize_filename(title),
     quality |-> quality, extension |-> extension]

\* quality_str.split(' ')[0]
SplitFirst(desc) == IF desc = <<>> THEN "" ELSE desc[1]

\* A lookup that finds no option, whatever the label.
FindByDesc_none(options, quality_str) == 0

\* The loops of lines 372-375 and 404-407: the first option whose label is
\* quality_str, 0 when there is none.
FindByDesc(options, quality_str) ==
    IF \E k \in 1..Len(options) : options[k].desc = quality_str
    THEN CHOOSE k \in 1..Len(options) :
            /\ options[k].desc = quality_str
            /\ \A j \in 1..(k - 1) : options[j].desc # quality_str
    ELSE 0

\* The elements of the set of numbers S, ascending.
RECURSIVE Ascending(_)
Ascending(S) ==
    IF S = {} THEN <<>>
    ELSE LET m == CHOOSE x \in S : \A y \in S : x <= y
         IN <<m>> \o Ascending(S \ {m})

\* A selection read in the order of the clicks that made it.
curselection_clicks(a) == a.sel_order

\* self.playlist_listbox.curselection(): the selected indices, ascending.
curselection(a) == Ascending(a.selection)

\* The first of a member's progressive streams in ascending resolution.
Highest_asc(avail) == CHOOSE s \in avail : \A r \in avail : s.px <= r.px

\* .order_by('resolution').desc().first() of a member's progressive streams.
Highest(avail) == CHOOSE s \in avail : \A r \in avail : r.px <= s.px

\* download, lines 308-315.
download_start(d) ==
    /\ dl[d].pc = "start"
    /\ MainLoopKeepsUp
    /\ LET quality_str == self.quality_var
           download_type == self.download_type
       IN IF quality_str = <<>> /\ download_type # "playlist"
          THEN /\ self' = after(log(self, "Error: Please select a quality option"),
                                Callback("download_button_normal", 0, ""))
               /\ dl' = [dl EXCEPT ![d].pc = "done"]
          ELSE /\ self' = self
               /\ dl' = [dl EXCEPT ![d].pc = "ask",
                                   ![d].url = Strip(self.url_entry),
                                   ![d].dtype = download_type,
                                   ![d].quality_str = quality_str]
    /\ UNCHANGED <<fetch, provider_calls, env, san, prog>>

\* Line 318 and ask_for_directory, lines 350-351: the dialog is scheduled on
\* the main thread with a fresh path_queue.
ask_for_directory(d) ==
    /\ dl[d].pc = "ask"
    /\ MainLoopKeepsUp
    /\ self' = after(log(self, "Please select a directory"), Callback("askdirectory", d, ""))
    /\ dl' = [dl EXCEPT ![d].pc = "wait_path", ![d].path_queue = <<>>]
    /\ UNCHANGED <<fetch, provider_calls, env, san, prog>>

\* Line 346: the finally clause of download.
download_finally(d) ==
    /\ dl[d].pc = "finally"
    /\ MainLoopKeepsUp
    /\ self' = after(self, Callback("download_button_normal", 0, ""))
    /\ dl' = [dl EXCEPT ![d].pc = "done"]
    /\ UNCHANGED <<fetch, provider_calls, env, san, prog>>

\* Lines 341-344: the handler of any exception of download's try block; the
\* messagebox is called by the download thread itself.
download_except(a) ==
    log(log(a, "An unexpected error occurred during the download process"), "--> Exception")

\* A test of the chosen directory that never finds it missing.
NoDirectory_never(save_path) == FALSE

\* if not save_path (line 321)
NoDirectory(save_path) == save_path = ""

\* path_queue.get() of line 352 and lines 321-326.
download_path(d) ==
    /\ dl[d].pc = "wait_path"
    /\ MainLoopKeepsUp
    /\ dl[d].path_queue # <<>>
    /\ LET save_path == Head(dl[d].path_queue) IN
          IF NoDirectory(save_path)
          THEN /\ self' = after(log(self, "Download cancelled: No directory was selected"),
                                Callback("download_button_normal", 0, ""))
               /\ dl' = [dl EXCEPT ![d].pc = "finally", ![d].path_queue = Tail(@),
                                   ![d].save_path = save_path]
          ELSE /\ self' = log(self, "Files will be saved to")
               /\ dl' = [dl EXCEPT ![d].pc = "select", ![d].path_queue = Tail(@),
                                   ![d].save_path = save_path]
    /\ UNCHANGED <<fetch, provider_calls, env, san, prog>>

\* Lines 329-337 and download_playlist, lines 403-415: the selection is read,
\* the selected members are looked up, and the itag of the chosen label is
\* looked up in self.stream_options.
download_select_playlist(d) ==
    /\ dl[d].pc = "select"
    /\ MainLoopKeepsUp
    /\ dl[d].dtype = "playlist"
    /\ LET selected_indices == curselection(self)
           option == FindByDesc(self.stream_options, dl[d].quality_str)
       IN IF selected_indices = <<>>
          THEN \* lines 331-334: the warning box is shown by this thread
               /\ self' = after(log(self, "Error: No videos selected for playlist download"),
                                Callback("download_button_normal", 0, ""))
               /\ dl' = [dl EXCEPT ![d].pc = "finally", ![d].bg_ui = TRUE]
          ELSE IF \E k \in 1..Len(selected_indices) :
                      selected_indices[k] > Len(self.playlist_videos_info)
          THEN \* line 336 raises IndexError
               /\ self' = download_except(self)
               /\ dl' = [dl EXCEPT ![d].pc = "finally", ![d].bg_ui = TRUE,
                                   ![d].indices = selected_indices,
                                   ![d].clicked = self.sel_order]
          ELSE LET selected_yt_videos ==
                       [k \in 1..Len(selected_indices) |->
                           self.playlist_videos_info[selected_indices[k]].yt]
               IN IF option = 0
                  THEN \* lines 409-412
                       /\ self' = after(log(self, "Error: Could not find the selected quality itag"),
                                        Callback("showerror", d, "Could not find the selected quality"))
                       /\ dl' = [dl EXCEPT ![d].pc = "finally",
                                           ![d].indices = selected_indices,
                                           ![d].clicked = self.sel_order,
                                           ![d].selected = selected_yt_videos]
                  ELSE /\ self' = log(self, "--- Starting playlist download ---")
                       /\ dl' = [dl EXCEPT ![d].pc = "item", ![d].i = 1,
                                           ![d].indices = selected_indices,
                                           ![d].clicked = self.sel_order,
                                           ![d].selected = selected_yt_videos,
                                           ![d].option = self.stream_options[option]]
    /\ UNCHANGED <<fetch, provider_calls, env, san, prog>>

\* download_single_item, lines 369-380: the video is resolved again and the
\* stream of the chosen label is looked up in self.stream_options.
download_select_single(d) ==
    /\ dl[d].pc = "select"
    /\ MainLoopKeepsUp
    /\ dl[d].dtype # "playlist"
    /\ LET option == FindByDesc(self.stream_options, dl[d].quality_str)
       IN \/ \* YouTube(url) raises: lines 341-344
             /\ self' = download_except(self)
             /\ dl' = [dl EXCEPT ![d].pc = "finally", ![d].bg_ui = TRUE]
          \/ /\ option = 0
             /\ self' = after(log(self, "Error: Could not find the selected stream"),
                              Callback("showerror", d, "Could not find the selected quality"))
             /\ dl' = [dl EXCEPT ![d].pc = "finally"]
          \/ /\ option # 0
             /\ self' = self
             /\ dl' = [dl EXCEPT ![d].pc = "extension",
                                 ![d].option = self.stream_options[option]]
    /\ UNCHANGED <<fetch, provider_calls, env, san, prog>>

\* Line 382: the extension, by the download type the field holds now.
download_extension(d) ==
    /\ dl[d].pc = "extension"
    /\ MainLoopKeepsUp
    /\ self' = self
    /\ dl' = [dl EXCEPT ![d].pc = "name",
                        ![d].extension = IF self.download_type = "video" THEN "mp4" ELSE "mp3"]
    /\ UNCHANGED <<fetch, provider_calls, env, san, prog>>

\* Lines 383-391: the quality tag, by the download type the field holds now,
\* and the file name; the transfer is about to start.  An option that holds
\* an itag has no resolution or abr, and yt.title may raise: lines 341-344.
download_name(d) ==
    /\ dl[d].pc = "name"
    /\ MainLoopKeepsUp
    /\ \/ /\ self' = download_except(self)
          /\ dl' = [dl EXCEPT ![d].pc = "finally", ![d].bg_ui = TRUE]
       \/ /\ dl[d].option.kind = "stream"
          /\ LET selected_stream == dl[d].option.obj
                 quality_info == IF self.download_type = "video"
                                 THEN selected_stream.resolution
                                 ELSE selected_stream.abr
                 quality_info_str == IF quality_info # "" THEN quality_info
                                     ELSE "unknown_quality"
             IN /\ self' = log(self, "Starting download")
                /\ dl' = [dl EXCEPT
                            ![d].pc = "transfer",
                            ![d].i = 1,
                            ![d].stream = selected_stream,
                            ![d].fallback = FALSE,
                            ![d].remaining = MaxChunks,
                            ![d].transfers = @ + 1,
                            ![d].filename =
                                Filename(1, VideoTitle, quality_info_str, dl[d].extension)]
    /\ UNCHANGED <<fetch, provider_calls, env, san, prog>>

\* One per-item outcome of a run, as the log lines of lines 432-447 and
\* 394-397 report it: the item, its 1-based ordinal, the streams the provider
\* had for it, whether the provider raised, whether stream.download was
\* called, and what was transferred to which file.  The status is "Success"
\* (lines 432, 394), "Fallback" (line 441), "NoStream" (line 443) or "Failed"
\* (lines 446, 397).
Outcome(r, status, threw) ==
    [yt |-> IF r.dtype = "playlist" THEN r.selected[r.i] ELSE [by |-> 0, m |-> 0],
     ordinal |-> r.i,
     avail |-> r.avail,
     threw |-> threw,
     started |-> r.pc = "transfer",
     status |-> status,
     stream |-> IF status \in {"Success", "Fallback"} THEN r.stream ELSE SNoRes,
     filename |-> IF status \in {"Success", "Fallback"} THEN r.filename ELSE <<>>]

\* A loop that an item's exception ends: the remaining items are not tried.
NextItem_break(r, status, threw) ==
    [r EXCEPT !.outcomes = Append(@, status),
              !.last = Outcome(r, status, threw),
              !.i = @ + 1,
              !.pc = IF r.dtype = "playlist" /\ r.i < Len(r.selected) /\ ~threw
                     THEN "item" ELSE "finally"]

\* The locals after the item r.i ended with the given outcome: the loop of
\* line 417 goes to its next turn, or ends.
NextItem(r, status, threw) ==
    [r EXCEPT !.outcomes = Append(@, status),
              !.last = Outcome(r, status, threw),
              !.i = @ + 1,
              !.pc = IF r.dtype = "playlist" /\ r.i < Len(r.selected)
                     THEN "item" ELSE "finally"]

\* Lines 450-451, which follow the last turn of the loop.
EndLoop(a, r, d) ==
    IF r.i < Len(r.selected) THEN a
    ELSE after(log(a, "--- Playlist download complete! ---"),
               Callback("showinfo", d, "Selected videos from playlist downloaded successfully!"))

\* Lines 417-443 up to the transfer: progress is reset, the file name is
\* built, and the member's streams are asked of the provider.  The provider
\* raises (or get_by_itag does, given a stream object instead of an itag),
\* or answers with the member's progressive streams.
download_item(d) ==
    /\ dl[d].pc = "item"
    /\ MainLoopKeepsUp
    /\ LET r == dl[d]
           i == r.i
           quality_info == SplitFirst(r.quality_str)
           a == log(after(self, Callback("progress_bar", 0, "reset")), "Downloading")
       IN \/ \* lines 445-448
             /\ self' = EndLoop(log(log(a, "ERROR: Could not download"), "--> Exception"), r, d)
             /\ dl' = [dl EXCEPT ![d] = NextItem([r EXCEPT !.avail = {}], "Failed", TRUE)]
          \/ /\ r.option.kind = "itag"
             /\ \E avail \in MemberStreams :
                  LET ra == [r EXCEPT !.avail = avail] IN
                  IF \E s \in avail : s.itag = r.option.obj.itag
                  THEN \* line 431
                       /\ self' = a
                       /\ dl' = [dl EXCEPT ![d] =
                                   [ra EXCEPT !.pc = "transfer",
                                              !.stream = r.option.obj,
                                              !.fallback = FALSE,
                                              !.remaining = MaxChunks,
                                              !.transfers = @ + 1,
                                              !.filename = Filename(i, VideoTitle,
                                                                    quality_info, "mp4")]]
                  ELSE IF avail # {}
                  THEN \* lines 434-440
                       /\ self' = log(log(a, "WARNING: Quality not found"), "Falling back")
                       /\ dl' = [dl EXCEPT ![d] =
                                   [ra EXCEPT !.pc = "transfer",
                                              !.stream = Highest(avail),
                                              !.fallback = TRUE,
                                              !.remaining = MaxChunks,
                                              !.transfers = @ + 1,
                                              !.filename = Filename(i, VideoTitle,
                                                               Highest(avail).resolution, "mp4")]]
                  ELSE \* line 443
                       /\ self' = EndLoop(log(log(a, "WARNING: Quality not found"),
                                              "ERROR: No progressive MP4 stream found"), r, d)
                       /\ dl' = [dl EXCEPT ![d] = NextItem(ra, "NoStream", FALSE)]
    /\ UNCHANGED <<fetch, provider_calls, env, san, prog>>

\* stream.download is running: the provider delivers a chunk and calls
\* on_progress, which schedules the progress bar update (line 463).
download_chunk(d) ==
    /\ dl[d].pc = "transfer"
    /\ MainLoopKeepsUp
    /\ dl[d].remaining > 0
    /\ self' = after(self, Callback("progress_bar",
                                    on_progress(MaxChunks, dl[d].remaining - 1), "on_progress"))
    /\ dl' = [dl EXCEPT ![d].remaining = @ - 1]
    /\ UNCHANGED <<fetch, provider_calls, env, san, prog>>

\* stream.download returns: lines 432, 441 (playlist) and 394-395 (single).
download_complete(d) ==
    /\ dl[d].pc = "transfer"
    /\ MainLoopKeepsUp
    /\ dl[d].remaining = 0
    /\ LET r == dl[d]
           status == IF r.fallback THEN "Fallback" ELSE "Success"
       IN /\ self' = IF r.dtype = "playlist"
                     THEN EndLoop(log(self, "SUCCESS: Downloaded"), r, d)
                     ELSE after(log(self, "SUCCESS: Download complete"),
                                Callback("showinfo", d, "has been downloaded successfully!"))
          /\ dl' = [dl EXCEPT ![d] = NextItem(r, status, FALSE)]
    /\ UNCHANGED <<fetch, provider_calls, env, san, prog>>

\* stream.download raises: lines 445-448 (playlist) and 396-398 (single).
download_raise(d) ==
    /\ dl[d].pc = "transfer"
    /\ MainLoopKeepsUp
    /\ LET r == dl[d] IN
          /\ self' = IF r.dtype = "playlist"
                     THEN EndLoop(log(log(self, "ERROR: Could not download"),
                                      "--> Exception"), r, d)
                     ELSE after(log(self, "ERROR: Failed to download"),
                                Callback("showerror", d, "Failed to download"))
          /\ dl' = [dl EXCEPT ![d] = NextItem(r, "Failed", TRUE)]
    /\ UNCHANGED <<fetch, provider_calls, env, san, prog>>

download(d) ==
    \/ download_start(d)
    \/ ask_for_directory(d)
    \/ download_path(d)
    \/ download_select_playlist(d)
    \/ download_select_single(d)
    \/ download_extension(d)
    \/ download_name(d)
    \/ download_item(d)
    \/ download_chunk(d)
    \/ download_complete(d)
    \/ download_raise(d)
    \/ download_finally(d)

\* ----------------------------------------------------------- specification
NoSan == [pc |-> "off", title |-> <<>>, once |-> <<>>, twice |-> <<>>]
NoProg == [pc |-> "off", total_size |-> 0, bytes_remaining |-> 0, percentage |-> 0]

\* The state after __init__, with room for nf fetch and nd download threads.
Start(nf, nd, e) ==
    /\ self = InitSelf
    /\ fetch = [t \in 1..nf |-> IdleFetch]
    /\ dl = [d \in 1..nd |-> IdleDl]
    /\ provider_calls = {}
    /\ env = e
    /\ san = NoSan
    /\ prog = NoProg

\* The application after one fetch of type dtype has run to its end and its
\* callbacks have run: for a playlist, of n members of which those in ok
\* resolved their title.  (FetchSpec reaches each of these states.)
ReadySelf(dtype, n, ok) ==
    LET options == IF dtype = "playlist" THEN ItagOptions(<<S720, S360>>, 1)
                   ELSE IF dtype = "video" THEN StreamOptions(<<S720, S360>>, dtype, 1)
                   ELSE StreamOptions(<<A128>>, dtype, 1)
        resolved == Ascending(ok)
    IN [InitSelf EXCEPT
          !.download_type = dtype,
          !.url_entry = IF dtype = "playlist" THEN UrlList ELSE UrlWatch,
          !.stream_options = options,
          !.quality_values = [k \in 1..Len(options) |-> options[k].desc],
          !.quality_var = options[1].desc,
          !.quality_state = "readonly",
          !.download_button = "normal",
          !.listbox = [k \in 1..n |->
                          [i |-> k, title |-> IF k \in ok THEN "title"
                                              ELSE "[Error fetching title]"]],
          !.playlist_videos_info =
              [k \in 1..Len(resolved) |->
                  [yt |-> Member(1, resolved[k]), title |-> "title"]]]

ReadyFetch(dtype, n) ==
    [pc |-> "done", url |-> Strip(IF dtype = "playlist" THEN UrlList ELSE UrlWatch),
     dtype |-> dtype, n |-> n, i |-> IF dtype = "playlist" THEN n + 1 ELSE 0]

Ready(dtype, n, ok, nd, e) ==
    /\ self = ReadySelf(dtype, n, ok)
    /\ fetch = <<ReadyFetch(dtype, n)>>
    /\ dl = [d \in 1..nd |-> IdleDl]
    /\ provider_calls = {Strip(self.url_entry)}
    /\ env = e
    /\ san = NoSan
    /\ prog = NoProg

\* A download from a fetched catalog: the fetch is over, and the user selects
\* playlist entries and a quality, clicks Download, answers the directory
\* dialog, and may switch the type at any time.
Init ==
    \E dtype \in DownloadTypes :
        \E n \in (IF dtype = "playlist" THEN 1..MaxMembers ELSE {0}) :
            \E ok \in SUBSET (1..n) :
                Ready(dtype, n, ok, MaxDl,
                      [urls |-> {UrlBad}, members |-> n, log |-> FALSE])

Next ==
    \/ EditUrl
    \/ on_url_change_reject
    \/ update_ui_for_type
    \/ listbox_click
    \/ select_all_playlist_videos
    \/ deselect_all_playlist_videos
    \/ quality_select
    \/ start_download_thread
    \/ RunAfter
    \/ \E d \in DlIds : download(d)

Spec == Init /\ [][Next]_vars

\* One fetch from the start of the program, with no download.
FetchInit ==
    Start(1, 0, [urls |-> TypedUrls, members |-> MaxMembers, log |-> FALSE])

FetchNext ==
    \/ EditUrl
    \/ on_url_change
    \/ update_ui_for_type
    \/ RunAfter
    \/ \E t \in FetchIds : fetch_stream_options(t)

FetchSpec == FetchInit /\ [][FetchNext]_vars

\* Two fetches of a URL that passes the heuristic, with no download.
RaceInit ==
    \E dtype \in DownloadTypes :
        /\ self = [InitSelf EXCEPT !.url_entry = UrlList, !.download_type = dtype]
        /\ fetch = [t \in 1..RaceFetch |-> IdleFetch]
        /\ dl = <<>>
        /\ provider_calls = {}
        /\ env = [urls |-> {}, members |-> RaceMembers, log |-> FALSE]
        /\ san = NoSan
        /\ prog = NoProg

RaceNext ==
    \/ on_url_change_fetch
    \/ update_ui_for_type
    \/ RunAfter
    \/ \E t \in FetchIds : fetch_stream_options(t)

RaceSpec == RaceInit /\ [][RaceNext]_vars

\* A playlist download from a fetched playlist of up to PlaylistMembers
\* members, all resolved: the user selects all entries or none, clicks
\* Download, answers the directory dialog, and may switch the type at any time.
PlaylistInit ==
    \E n \in 1..PlaylistMembers :
        Ready("playlist", n, 1..n, 1, [urls |-> {}, members |-> n, log |-> FALSE])

PlaylistNext ==
    \/ update_ui_for_type
    \/ select_all_playlist_videos
    \/ deselect_all_playlist_videos
    \/ start_download_thread
    \/ RunAfter
    \/ \E d \in DlIds : download(d)

PlaylistSpec == PlaylistInit /\ [][PlaylistNext]_vars

\* Downloads of a fetched video while the URL field still takes Return and
\* FocusOut: one more fetch, ReentryDl download threads.
ReentryInit ==
    /\ self = ReadySelf("video", 0, {})
    /\ fetch = <<ReadyFetch("video", 0), IdleFetch>>
    /\ dl = [d \in 1..ReentryDl |-> IdleDl]
    /\ provider_calls = {Strip(UrlWatch)}
    /\ env = [urls |-> {}, members |-> 0, log |-> FALSE]
    /\ san = NoSan
    /\ prog = NoProg

ReentryNext ==
    \/ on_url_change_fetch
    \/ start_download_thread
    \/ RunAfter
    \/ \E t \in FetchIds : fetch_stream_options(t)
    \/ \E d \in DlIds : download(d)

ReentrySpec == ReentryInit /\ [][ReentryNext]_vars

\* The same, with the main loop running every callback handed to root.after
\* (and the user answering the dialog it shows), and every thread that can
\* take a step taking it.
AskSpec ==
    /\ ReentryInit
    /\ [][ReentryNext]_vars
    /\ WF_vars(RunAfter)
    /\ \A d \in 1..ReentryDl : WF_vars(download(d))

\* ------------------------------------------- sanitize_filename on its own
SanAlphabet == {"a", " ", "\t", "_", ":"}

\* The sequences over S of length at most n.
RECURSIVE SeqsUpTo(_, _)
SeqsUpTo(S, n) ==
    IF n = 0 THEN {<<>>}
    ELSE LET shorter == SeqsUpTo(S, n - 1)
         IN shorter \cup {Append(t, c) : t \in shorter, c \in S}

\* n letters.
Letters(n) == [k \in 1..n |-> "a"]

\* The titles given to sanitize_filename: short ones, and ones that reach the
\* truncation at TruncLen characters.
SanTitles ==
    {Letters(n) \o t : n \in {0, TruncLen - 2, TruncLen - 1, TruncLen},
                       t \in SeqsUpTo(SanAlphabet, MaxTail)}

SanInit ==
    /\ self = InitSelf
    /\ fetch = <<>>
    /\ dl = <<>>
    /\ provider_calls = {}
    /\ env = [urls |-> {}, members |-> 0, log |-> FALSE]
    /\ \E title \in SanTitles :
          san = [pc |-> "title", title |-> title, once |-> <<>>, twice |-> <<>>]
    /\ prog = NoProg

\* sanitize_filename(title)
SanOnce ==
    /\ san.pc = "title"
    /\ san' = [san EXCEPT !.pc = "once", !.once = sanitize_filename(san.title)]
    /\ UNCHANGED <<self, fetch, dl, provider_calls, env, prog>>

\* sanitize_filename(sanitize_filename(title))
SanTwice ==
    /\ san.pc = "once"
    /\ san' = [san EXCEPT !.pc = "twice", !.twice = sanitize_filename(san.once)]
    /\ UNCHANGED <<self, fetch, dl, provider_calls, env, prog>>

SanNext == SanOnce \/ SanTwice

SanSpec == SanInit /\ [][SanNext]_vars

\* Every message logged so far, in the order of the calls of log: what the
\* log widget shows, then what still waits in log_queue.
History(a) == a.log_text \o a.log_queue

\* Fetches of a URL of any kind with the log observed: the user presses
\* Return in the URL field, up to MaxRejects times on a URL that is rejected.
FailInit ==
    \E url \in TypedUrls, dtype \in DownloadTypes :
        /\ self = [InitSelf EXCEPT !.url_entry = url, !.download_type = dtype]
        /\ fetch = [t \in 1..FailFetch |-> IdleFetch]
        /\ dl = <<>>
        /\ provider_calls = {}
        /\ env = [urls |-> {}, members |-> FailMembers, log |-> TRUE]
        /\ san = NoSan
        /\ prog = NoProg

FailNext ==
    \/ (Len(History(self)) < MaxRejects /\ on_url_change_reject)
    \/ on_url_change_fetch
    \/ RunAfter
    \/ \E t \in FetchIds : fetch_stream_options(t)

FailSpec == FailInit /\ [][FailNext]_vars

\* The log: the welcome message of line 128 is in the queue, LogFetch fetch
\* threads of a video URL and the main thread log, and the timer drains the queue.  The
\* timer is armed by line 129 and armed again by every run (line 139), so
\* the main loop runs process_log_queue again and again.
LogInit ==
    /\ self = [InitSelf EXCEPT !.url_entry = UrlWatch, !.log_queue = <<"Welcome!">>]
    /\ fetch = [t \in 1..LogFetch |-> IdleFetch]
    /\ dl = <<>>
    /\ provider_calls = {}
    /\ env = [urls |-> {}, members |-> 0, log |-> TRUE]
    /\ san = NoSan
    /\ prog = NoProg

LogNext ==
    \/ on_url_change_fetch
    \/ RunAfter
    \/ process_log_queue
    \/ \E t \in FetchIds : fetch_stream_options(t)

LogSpec == LogInit /\ [][LogNext]_vars /\ WF_vars(process_log_queue)

\* One fetch of a playlist of up to ListMembers members, the type left alone.
ListInit ==
    /\ self = [InitSelf EXCEPT !.url_entry = UrlList, !.download_type = "playlist"]
    /\ fetch = <<IdleFetch>>
    /\ dl = <<>>
    /\ provider_calls = {}
    /\ env = [urls |-> {}, members |-> ListMembers, log |-> FALSE]
    /\ san = NoSan
    /\ prog = NoProg

ListNext ==
    \/ on_url_change_fetch
    \/ RunAfter
    \/ \E t \in FetchIds : fetch_stream_options(t)

ListSpec == ListInit /\ [][ListNext]_vars

\* ------------------------------------------------- on_progress on its own
\* stream.filesize and bytes_remaining as the provider can report them.
ProgTotals == (0..MaxTotal) \cup {1000}
ProgRemainings == ((0 - MaxOver)..(MaxTotal + MaxOver)) \cup {250}

ProgInit ==
    /\ self = InitSelf
    /\ fetch = <<>>
    /\ dl = <<>>
    /\ provider_calls = {}
    /\ env = [urls |-> {}, members |-> 0, log |-> FALSE]
    /\ san = NoSan
    /\ \E total_size \in ProgTotals, bytes_remaining \in ProgRemainings :
          prog = [pc |-> "args", total_size |-> total_size,
                  bytes_remaining |-> bytes_remaining, percentage |-> 0]

\* on_progress(stream, chunk, bytes_remaining), lines 453-463: the percentage
\* is computed and the progress bar update is scheduled.
ProgReport ==
    /\ prog.pc = "args"
    /\ LET percentage == on_progress(prog.total_size, prog.bytes_remaining)
       IN /\ prog' = [prog EXCEPT !.pc = "done", !.percentage = percentage]
          /\ self' = after(self, Callback("progress_bar", percentage, "on_progress"))
    /\ UNCHANGED <<fetch, dl, provider_calls, env, san>>

ProgNext == ProgReport \/ RunAfter

ProgSpec == ProgInit /\ [][ProgNext]_vars

\* -------------------------------------------------------------- properties

\* C1: in a playlist run an error raised for one member fails that member
\* only: the loop goes on to the remaining members, and a run over N members
\* ends with N outcomes, the k-th of them for the k-th selected member.
C1_FailureIsolated ==
    \A d \in DlIds :
        LET r == dl[d]
            n == Len(r.outcomes)
        IN (r.dtype = "playlist" /\ r.i > 0) =>
              /\ n = r.i - 1
              /\ n < Len(r.selected) => r.pc \in {"item", "transfer"}
              /\ r.pc \in {"finally", "done"} => n = Len(r.selected)
              /\ n > 0 => /\ r.last.ordinal = n
                          /\ r.last.yt = r.selected[n]
                          /\ r.last.status = r.outcomes[n]
                          /\ r.last.threw => r.last.status = "Failed"

\* The second of three members failed while it was transferred, and the third
\* is being transferred.
C1_Witness ==
    \E d \in DlIds :
        /\ dl[d].dtype = "playlist"
        /\ Len(dl[d].selected) = 3
        /\ dl[d].outcomes = <<"Success", "Failed">>
        /\ dl[d].last.threw /\ dl[d].last.started
        /\ dl[d].pc = "transfer"
        /\ dl[d].i = 3

\* C2: at most one download is in flight: no two download threads are
\* between their directory dialog and their end at the same time.
C2_AtMostOneDownload ==
    Cardinality({d \in DlIds : dl[d].pc \in {"select", "item", "transfer"}}) <= 1

\* C3: at most one fetch is in flight: no fetch thread is started while
\* another one is running.
C3_AtMostOneFetch == Cardinality(Running(fetch)) <= 1

\* The fetches that produced the entries of the catalog and of the member list.
Producers(a) ==
    {a.stream_options[k].by : k \in 1..Len(a.stream_options)}
        \cup {a.playlist_videos_info[k].yt.by : k \in 1..Len(a.playlist_videos_info)}

\* C4: once the fetches have ended and the main loop has run their
\* callbacks, the catalog and the member list were produced by one fetch.
C4_OneProducer ==
    (Running(fetch) = {} /\ self.after_queue = <<>>) => Cardinality(Producers(self)) <= 1

\* C5: a download whose directory dialog returned no directory ends there:
\* it transfers nothing, resolves no item and reports no outcome.
C5_NoDirectoryAborts ==
    \A d \in DlIds :
        dl[d].save_path = "" =>
            /\ dl[d].pc \in {"finally", "done"}
            /\ dl[d].transfers = 0
            /\ dl[d].outcomes = <<>>
            /\ dl[d].last = NoOutcome
            /\ dl[d].i = 0

\* A download has ended after its dialog was cancelled.
C5_Witness == \E d \in DlIds : dl[d].save_path = "" /\ dl[d].pc = "done"

\* The outcome o of a playlist item is the one its own streams call for,
\* given the requested itag.
OutcomeByOwnStreams(o, itag) ==
    IF o.threw THEN o.status = "Failed"
    ELSE IF \E s \in o.avail : s.itag = itag
    THEN /\ o.status = "Success"
         /\ o.started
         /\ o.stream.itag = itag
    ELSE IF o.avail # {}
    THEN /\ o.status = "Fallback"
         /\ o.started
         /\ o.stream \in o.avail
         /\ \A s \in o.avail : s.px <= o.stream.px
    ELSE /\ o.status = "NoStream"
         /\ ~o.started

\* C6: a playlist member that has the requested itag is downloaded with it;
\* one that lacks it is downloaded with its highest progressive stream and
\* reported as a fallback; one with no progressive stream is reported as
\* failed and nothing is transferred for it.  The outcomes of the members
\* before it have no part in this.
C6_PerMemberRendition ==
    \A d \in DlIds :
        LET r == dl[d] IN
        (r.dtype = "playlist" /\ r.outcomes # <<>> /\ r.option.kind = "itag") =>
            /\ OutcomeByOwnStreams(r.last, r.option.obj.itag)
            /\ r.last.status = r.outcomes[Len(r.outcomes)]

\* The first member fell back to the higher of its two streams, and the
\* second had the requested stream.
C6_Witness ==
    \E d \in DlIds :
        /\ dl[d].dtype = "playlist"
        /\ dl[d].outcomes = <<"Fallback", "Success">>
        /\ dl[d].option.obj = S360
        /\ dl[d].last.stream.itag = dl[d].option.obj.itag

\* The main loop runs a callback that sets the progress bar to 0 for the
\* start of a playlist item (line 418).
RunsReset ==
    /\ self.after_queue # <<>>
    /\ Head(self.after_queue).f = "progress_bar"
    /\ Head(self.after_queue).s = "reset"
    /\ self'.after_queue = Tail(self.after_queue)

\* C7: while one item is being transferred no step makes the displayed
\* progress smaller, but the reset to 0 that belongs to the start of an item.
C7_ProgressMonotone ==
    [][(\E d \in DlIds : /\ dl[d].pc = "transfer"
                         /\ dl'[d].pc = "transfer"
                         /\ dl'[d].i = dl[d].i
                         /\ ~RunsReset)
          => self'.progress_bar >= self.progress_bar]_vars

\* The order in which the run of d has worked through the playlist is the
\* order in which the user selected the entries.
InSelectionOrder(d) == dl[d].indices = dl[d].clicked

\* The order in which the run of d has worked through the playlist is the
\* ascending order of the listbox indices; the members are those entries of
\* the member list, and an outcome's ordinal is its position in that order.
InListboxOrder(d) ==
    LET r == dl[d] IN
    /\ {r.indices[k] : k \in 1..Len(r.indices)} = {r.clicked[k] : k \in 1..Len(r.clicked)}
    /\ Len(r.indices) = Len(r.clicked)
    /\ \A j, k \in 1..Len(r.indices) : j < k => r.indices[j] < r.indices[k]
    /\ Len(r.selected) \in {0, Len(r.indices)}
    /\ \A j, k \in 1..Len(r.selected) : j < k => r.selected[j].m < r.selected[k].m
    /\ r.outcomes # <<>> => /\ r.last.ordinal = Len(r.outcomes)
                            /\ r.last.yt = r.selected[r.last.ordinal]
                            /\ r.last.status \in {"Success", "Fallback"}
                                   => r.last.filename.ordinal = r.last.ordinal

\* C8 as stated: a playlist run works through the selection in the order in
\* which the entries were selected.
C8_SelectionOrder ==
    \A d \in DlIds : dl[d].dtype = "playlist" => InSelectionOrder(d)

\* C8, amended: a playlist run works through the selected entries in
\* ascending listbox order, whatever the order of the clicks, and the ordinal
\* of an item is its position in that order.
C8_ListboxOrder ==
    \A d \in DlIds : dl[d].dtype = "playlist" => InListboxOrder(d)

\* The second entry was selected before the first, and the run has ended
\* with the first entry's member done first.
C8_Witness ==
    \E d \in DlIds :
        /\ dl[d].dtype = "playlist"
        /\ dl[d].clicked = <<2, 1>>
        /\ dl[d].indices = <<1, 2>>
        /\ Len(dl[d].outcomes) = 2
        /\ dl[d].pc = "done"

\* C9: every URL a fetch has given to the provider passes the heuristic of
\* on_url_change.
C9_ProviderUrlsPass == \A u \in provider_calls : PassesHeuristic(u)

\* C10: filename sanitization is idempotent: sanitizing a sanitized title
\* gives the sanitized title back, also for titles cut by the 100-character
\* truncation.
C10_SanitizeIdempotent == san.pc = "twice" => san.twice = san.once


\* s has the shape of a sanitized title: none of the invalid characters, no
\* whitespace, no two underscores in a row, no underscore at either end, and
\* at most 100 characters.
Sanitized(s) ==
    /\ \A k \in 1..Len(s) : s[k] \notin InvalidChars \cup Whitespace
    /\ \A k \in 1..(Len(s) - 1) : ~(s[k] = "_" /\ s[k + 1] = "_")
    /\ s # <<>> => (s[1] # "_" /\ s[Len(s)] # "_")
    /\ Len(s) <= 100

\* C11: whatever the title, the result of sanitize_filename holds none of
\* the characters \ / : * ? " < > |, no whitespace and no two consecutive
\* underscores, neither starts nor ends with an underscore, and is at most
\* 100 characters long.
C11_SanitizedShape == san.pc \in {"once", "twice"} => Sanitized(san.once)


\* The name the file of an item is to have: the item's ordinal, the
\* sanitized title, the quality of the stream that is transferred, and mp3
\* for an audio download, mp4 for a video or a playlist download.
FileName(dtype, ordinal, stream) ==
    [ordinal |-> ordinal,
     title |-> sanitize_filename(VideoTitle),
     quality |-> IF dtype = "audio" THEN stream.abr ELSE stream.resolution,
     extension |-> IF dtype = "audio" THEN "mp3" ELSE "mp4"]

\* C12: every file a download writes, or has written, is named
\* {ordinal}-{sanitized title}-{quality tag}.{extension}: the ordinal is the
\* item's position in the run (1 for a single item), the quality tag is that
\* of the stream transferred, and the extension is mp4 for video and
\* playlist items, mp3 for audio.
C12_FilenameFormat ==
    \A d \in DlIds :
        LET r == dl[d] IN
        /\ r.pc = "transfer" => r.filename = FileName(r.dtype, r.i, r.stream)
        /\ r.last.status \in {"Success", "Fallback"}
              => r.last.filename = FileName(r.dtype, r.last.ordinal, r.last.stream)


\* C13: the progress callback computes 0 for a total size of 0, whatever
\* remains, and otherwise the percentage (total - remaining) / total * 100,
\* here in whole percents; for (1000, 250) that is 75.
C13_Percentage ==
    prog.pc = "done" =>
        LET t == prog.total_size
            done == (t - prog.bytes_remaining) * 100
            p == prog.percentage
        IN /\ t = 0 => p = 0
           /\ t # 0 => (p * t <= done /\ done < (p + 1) * t)
           /\ (t = 1000 /\ prog.bytes_remaining = 250) => p = 75

\* on_progress was called with (1000, 250) and has computed 75.
C13_Witness ==
    /\ prog.pc = "done"
    /\ prog.total_size = 1000
    /\ prog.bytes_remaining = 250
    /\ prog.percentage = 75

\* C14: every percentage the progress callback publishes, hence every value
\* the progress bar is given, lies in the range 0..100, also when the bytes
\* remaining exceed the total size or are negative.
C14_Clamped ==
    /\ prog.pc = "done" => prog.percentage \in 0..100
    /\ \A k \in 1..Len(self.after_queue) :
          self.after_queue[k].f = "progress_bar" => self.after_queue[k].n \in 0..100
    /\ self.progress_bar \in 0..100


\* The messages that report a fetch as failed, and those that report a URL
\* as rejected.
FatalMessages ==
    {"FATAL ERROR: Could not fetch details",
     "Error: This playlist is empty or private",
     "Error: No compatible streams were found"}
RejectMessages == {"URL field is empty", "Invalid URL format"}

\* The messages of the set S that this step logs.
Logged(S) ==
    SelectSeq(SubSeq(History(self)', Len(History(self)) + 1, Len(History(self)')),
              LAMBDA m : m \in S)

\* C15: a rejected URL is reported by one message and starts no fetch; a
\* fetch thread reports a failure only in the step that ends it, and it ends
\* either with update_ui scheduled and no failure reported, or with
\* clear_fields scheduled and the failure reported by one message; whatever
\* the outcome the thread ends, and Return starts a fetch as before.
C15_FatalOnce ==
    [][/\ on_url_change_reject =>
             (Len(Logged(RejectMessages)) = 1 /\ fetch' = fetch)
       /\ \A t \in FetchIds :
             fetch'[t] # fetch[t] =>
                LET scheduled == self'.after_queue[Len(self'.after_queue)].f IN
                IF fetch'[t].pc = "done"
                THEN /\ scheduled \in {"update_ui", "clear_fields"}
                     /\ Len(Logged(FatalMessages)) =
                            (IF scheduled = "clear_fields" THEN 1 ELSE 0)
                     /\ (\E u \in FetchIds : fetch'[u].pc = "idle")
                            => ENABLED on_url_change_fetch
                ELSE Logged(FatalMessages) = <<>>]_vars

\* A fetch has ended in failure, with one report of it logged, and the next
\* fetch is running.
C15_Witness ==
    /\ fetch[1].pc = "done"
    /\ fetch[2].pc = "connect"
    /\ Len(SelectSeq(History(self), LAMBDA m : m \in FatalMessages)) = 1


\* The entries of the playlist listbox, those shown followed by those whose
\* insertion is scheduled.
Entries(a) ==
    a.listbox \o
    [k \in 1..Len(SelectSeq(a.after_queue, LAMBDA cb : cb.f = "listbox_insert")) |->
        ListboxEntry(SelectSeq(a.after_queue, LAMBDA cb : cb.f = "listbox_insert")[k])]

\* C16: in the fetch of a playlist a member whose title does not resolve
\* gets a placeholder entry and the loop goes on: the entries are those of
\* the members handled so far, one each, in playlist order; after the last
\* member there is one entry for every member, and when the fetch has ended
\* with Download enabled the listbox shows them all.
C16_PlaceholderEntries ==
    \A t \in FetchIds :
        LET f == fetch[t]
            e == Entries(self)
        IN /\ f.pc = "member" => (f.i <= f.n /\ Len(e) = f.i - 1)
           /\ f.pc = "check" /\ f.dtype = "playlist" => Len(e) = f.n
           /\ f.pc \in {"member", "check", "done"} =>
                 \A k \in 1..Len(e) :
                     /\ e[k].i = k
                     /\ e[k].title \in {"title", "[Error fetching title]"}
           /\ (f.pc = "done" /\ self.after_queue = <<>> /\ self.download_button = "normal")
                 => Len(self.listbox) = f.n

\* The fetch of three members has ended with Download enabled; the second
\* member has a placeholder, the first and the third have their titles.
C16_Witness ==
    /\ fetch[1].pc = "done"
    /\ self.after_queue = <<>>
    /\ self.download_button = "normal"
    /\ self.listbox = <<[i |-> 1, title |-> "title"],
                        [i |-> 2, title |-> "[Error fetching title]"],
                        [i |-> 3, title |-> "title"]>>


\* The message boxes of run d: those shown, those scheduled, and the one the
\* thread called itself.
Reports(d) ==
    Len(dl[d].shown)
    + Len(SelectSeq(self.after_queue,
                    LAMBDA cb : cb.f \in {"showinfo", "showerror"} /\ cb.n = d))
    + (IF dl[d].bg_ui THEN 1 ELSE 0)

\* The catalog holds an option with the label run d asked for.
Matches(d) ==
    \E k \in 1..Len(self.stream_options) : self.stream_options[k].desc = dl[d].quality_str

\* The single-item run d got its directory and has left download_single_item.
SingleRan(d) ==
    /\ dl[d].dtype # "playlist"
    /\ dl[d].pc \in {"finally", "done"}
    /\ dl[d].save_path \notin {"unset", ""}

\* The step of run d that looks the label up in the catalog finds nothing:
\* one failure is reported, no transfer is started, and the run stops.
NotFoundStops(d) ==
    (dl[d].pc = "select" /\ dl[d].dtype # "playlist" /\ dl'[d] # dl[d] /\ ~Matches(d)) =>
        /\ dl'[d].pc = "finally"
        /\ dl'[d].transfers = 0
        /\ dl'[d].outcomes = <<>>
        /\ Reports(d)' = 1

\* C17 as stated: a single-item run that finds no option of its label
\* reports one failure and starts no transfer; any other single-item run
\* attempts exactly one transfer and reports exactly one outcome.
C17_ExactlyOneTransfer ==
    /\ [][\A d \in DlIds : NotFoundStops(d)]_vars
    /\ [](\A d \in DlIds :
            (SingleRan(d) /\ dl[d].option # NoOption) =>
                /\ dl[d].transfers = 1
                /\ Len(dl[d].outcomes) = 1
                /\ Reports(d) = 1)

\* C17, amended: a single-item run that finds no option of its label reports
\* one failure and starts no transfer.  A run that finds it goes on to the
\* transfer unless the provider raises first (YouTube(url), yt.title): it
\* attempts at most one transfer, has one per-item outcome for each transfer
\* attempted, and reports exactly one success or failure.
C17_AtMostOneTransfer ==
    /\ [][\A d \in DlIds :
            /\ NotFoundStops(d)
            /\ (dl[d].pc = "select" /\ dl[d].dtype # "playlist" /\ dl'[d] # dl[d]
                  /\ Matches(d)) =>
                  \/ dl'[d].pc = "extension" /\ Reports(d)' = 0
                  \/ dl'[d].pc = "finally" /\ dl'[d].bg_ui /\ Reports(d)' = 1]_vars
    /\ [](\A d \in DlIds :
            /\ dl[d].dtype # "playlist" => dl[d].transfers <= 1
            /\ SingleRan(d) =>
                /\ Len(dl[d].outcomes) = dl[d].transfers
                /\ Reports(d) = 1
                /\ dl[d].option = NoOption => dl[d].transfers = 0)

\* A single-item run looked its label up in a catalog that had been cleared:
\* it has ended with the error box shown, nothing transferred, no outcome.
C17_Witness ==
    \E d \in DlIds :
        /\ SingleRan(d) /\ dl[d].pc = "done"
        /\ dl[d].option = NoOption
        /\ ~dl[d].bg_ui
        /\ dl[d].transfers = 0
        /\ dl[d].outcomes = <<>>
        /\ dl[d].shown = <<"Could not find the selected quality">>


\* s is t or the beginning of t.
IsPrefix(s, t) == Len(s) <= Len(t) /\ SubSeq(t, 1, Len(s)) = s

\* C18: the log is ordered.  In every step the messages displayed followed
\* by the messages queued stay as they were, with the messages the step
\* logs added at the end, and the display keeps what it showed: a message
\* is displayed once, in the order of the puts.  With the timer running,
\* the n-th message put is displayed in the end.
C18_LogOrdered ==
    /\ [][/\ IsPrefix(History(self), History(self)')
          /\ IsPrefix(self.log_text, self.log_text')]_vars
    /\ \A n \in 1..LogLen : (Len(History(self)) >= n) ~> (Len(self.log_text) >= n)

\* Both fetch threads and the main thread (update_ui) have logged, and all
\* of it is displayed behind the welcome message.
C18_Witness ==
    /\ self.log_queue = <<>>
    /\ Head(self.log_text) = "Welcome!"
    /\ \A t \in FetchIds : fetch[t].pc = "done"
    /\ \E k \in 1..Len(self.log_text) : self.log_text[k] = "Ready to download"
    /\ Len(SelectSeq(self.log_text, LAMBDA m : m = "Connecting to URL")) = LogFetch


\* C19: a download thread calls no presentation primitive itself: no run
\* has shown a messagebox from its own thread (every box a run causes is
\* scheduled with root.after and shown by the main loop).
C19_NoBackgroundUi == \A d \in DlIds : ~dl[d].bg_ui


\* The askdirectory callbacks of call d that the main loop has yet to run.
Asked(d) == Len(SelectSeq(self.after_queue, LAMBDA cb : cb.f = "askdirectory" /\ cb.n = d))

\* C20: ask_for_directory is a one-shot hand-off.  A waiting call has either
\* its dialog scheduled or its answer in its queue, never both and never
\* two, and a thread that does not wait has neither; the main loop puts the
\* answer of a dialog in the queue of the call that scheduled it and in no
\* other; the call returns only with an answer in its queue, and returns
\* that answer; and with the main loop running, a waiting call returns.
C20_OneShotHandoff ==
    /\ [](\A d \in DlIds :
            Asked(d) + Len(dl[d].path_queue) = (IF dl[d].pc = "wait_path" THEN 1 ELSE 0))
    /\ [][\A d \in DlIds :
            /\ (Asked(d)' < Asked(d)) =>
                  /\ \E path \in Directories : dl'[d].path_queue = <<path>>
                  /\ \A e \in DlIds \ {d} : dl'[e] = dl[e]
            /\ (dl[d].pc = "wait_path" /\ dl'[d].pc # "wait_path") =>
                  /\ dl[d].path_queue # <<>>
                  /\ dl'[d].save_path = Head(dl[d].path_queue)]_vars
    /\ \A d \in 1..ReentryDl : (dl[d].pc = "wait_path") ~> (dl[d].pc # "wait_path")

\* The second download thread has its answer, a directory, while the first
\* still waits for its own, its dialog not yet shown.
C20_Witness ==
    /\ dl[1].pc = "wait_path"
    /\ dl[1].path_queue = <<>>
    /\ Asked(1) = 1
    /\ dl[2].pc \notin {"idle", "start", "ask", "wait_path"}
    /\ dl[2].save_path = "/dir"


\* C21: the catalog of a playlist is sampled from the first member that
\* resolves: a fetch of a playlist with more members than one does not end
\* when its first member fails to resolve, it goes on to a later member.
C21_FirstResolvable ==
    [][\A t \in FetchIds :
          (fetch[t].pc = "first" /\ fetch[t].n > 1) => fetch'[t].pc # "done"]_vars


\* C22: when a playlist fetch has ended with Download enabled, the k-th
\* entry of the listbox and the k-th entry of playlist_videos_info are the
\* same member of the playlist, so that every index of the listbox is an
\* index of playlist_videos_info.
C22_ListAligned ==
    \A t \in FetchIds :
        (/\ fetch[t].pc = "done"
         /\ fetch[t].dtype = "playlist"
         /\ self.after_queue = <<>>
         /\ self.download_button = "normal") =>
            \A k \in 1..Len(self.listbox) :
                /\ k <= Len(self.playlist_videos_info)
                /\ self.playlist_videos_info[k].yt.m = self.listbox[k].i


\* The download type whose fetch builds a catalog entry like option: itags
\* for a playlist (line 245), audio streams for audio (line 228), video
\* streams for a video (line 221).
CatalogType(option) ==
    IF option.kind = "itag" THEN "playlist"
    ELSE IF option.obj.mime_type = "audio/mp4" THEN "audio"
    ELSE "video"

\* C23: whenever the Download button is enabled, self.stream_options is not
\* empty and each of its entries was built by a fetch of the download type
\* that is selected now.
C23_CatalogOfType ==
    self.download_button = "normal" =>
        /\ self.stream_options # <<>>
        /\ \A k \in 1..Len(self.stream_options) :
              CatalogType(self.stream_options[k]) = self.download_type


\* C24: the success box of the end of a playlist run (line 451) is
\* scheduled or shown for a run only if every member the run processed
\* ended in a transfer, of the chosen rendition or of the fallback.
C24_SuccessOnlyIfAll ==
    \A d \in DlIds :
        LET box == "Selected videos from playlist downloaded successfully!"
            scheduled == \E k \in 1..Len(self.after_queue) :
                            /\ self.after_queue[k].f = "showinfo"
                            /\ self.after_queue[k].n = d
                            /\ self.after_queue[k].s = box
            shown == \E k \in 1..Len(dl[d].shown) : dl[d].shown[k] = box
        IN (scheduled \/ shown) =>
              \A k \in 1..Len(dl[d].outcomes) : dl[d].outcomes[k] \in {"Success", "Fallback"}

====
